---- MODULE Spec2Model ----
(***************************************************************************)
(* ColoursFrontend: camera stream acquisition (useCameraStream), the zoom  *)
(* utilities (applyVideoZoom, resetVideoZoom, extractZoomedFrame) and the  *)
(* page that drives them (CameraAppPage).                                  *)
(*                                                                         *)
(* Two specifications share the variables:                                 *)
(*   Spec      CameraAppPage with useCameraStream, as React runs them.     *)
(*   SpecZoom  the zoom utilities and the two release paths of the hook    *)
(*             applied to one display surface with every kind of stream.   *)
(*                                                                         *)
(* JavaScript numbers that are not integers (2.5, W / 2.5, ...) are exact  *)
(* rationals <<numerator, denominator>>.                                   *)
(***************************************************************************)
EXTENDS Integers, Sequences, FiniteSets, TLC

VARIABLES
  mounted,               \* CameraAppPage is mounted
  showInfoOverlay,       \* useState(true)
  capturedImageDataUrl,  \* useState(null): NullImage or the captured still
  currentTestType,       \* useState('WHITE')
  toastMessage,          \* useState('')
  placedCrosshairs,      \* useState([])
  analysisResult,        \* useState(null)
  isLoadingAnalysis,     \* useState(false)
  showResultsModal,      \* useState(false)
  isPostAnalysis,        \* useState(false)
  videoRef,              \* useRef: the <video> element, current = FALSE when null
  effects,               \* the instances of the useCameraStream effect, in order
  streams,               \* the MediaStreams getUserMedia has returned, in order
  zoomState,             \* position of the applyVideoZoom call
  zoomRequested,         \* the zoom value handed to applyConstraints
  extraction,            \* result of the last extractZoomedFrame call
  lastCall,              \* the utility or release path that ran last (SpecZoom)
  request                \* the sendAnalysisData call of handleSendData

pageVars == <<mounted, showInfoOverlay, capturedImageDataUrl, currentTestType,
              toastMessage, placedCrosshairs, analysisResult, isLoadingAnalysis,
              showResultsModal, isPostAnalysis>>
hookVars == <<videoRef, effects, streams>>
zoomVars == <<zoomState, zoomRequested, extraction, lastCall>>
serviceVars == <<request>>
vars == <<pageVars, hookVars, zoomVars, serviceVars>>

(***************************************************************************)
(* Bounds                                                                  *)
(***************************************************************************)
MaxDim == 2
MaxZoom == 3
MaxEffects == 4
MaxPoints == 2

(***************************************************************************)
(* Numbers                                                                 *)
(***************************************************************************)
R(n) == <<n, 1>>
RDiv(a, b) == <<a[1] * b[2], a[2] * b[1]>>
RMul(a, b) == <<a[1] * b[1], a[2] * b[2]>>
RSub(a, b) == <<a[1] * b[2] - b[1] * a[2], a[2] * b[2]>>
RAdd(a, b) == <<a[1] * b[2] + b[1] * a[2], a[2] * b[2]>>
REq(a, b) == a[1] * b[2] = b[1] * a[2]
RLess(a, b) == a[1] * b[2] < b[1] * a[2]
\* Math.min
RMin(a, b) == IF RLess(b, a) THEN b ELSE a

\* export const CAMERA_ZOOM_FACTOR = 2.5
CAMERA_ZOOM_FACTOR == <<5, 2>>

(***************************************************************************)
(* Values                                                                  *)
(***************************************************************************)
\* element.style.transform: '' or `scale(${arg})`
NoTransform == [fn |-> "", arg |-> R(1)]
ScaleTransform(f) == [fn |-> "scale", arg |-> f]

\* videoRef.current === null
NullVideo ==
  [current |-> FALSE, srcObject |-> 0, transform |-> NoTransform, transformOrigin |-> "",
   readyState |-> 0, videoWidth |-> 0, videoHeight |-> 0]

\* a <video> element as React mounts it: nothing bound, no inline style
NewVideo == [NullVideo EXCEPT !.current = TRUE]

\* capturedImageDataUrl === null
NullImage ==
  [data |-> "null", width |-> 0, height |-> 0, sx |-> R(0), sy |-> R(0),
   sw |-> R(0), sh |-> R(0), sourceZoom |-> R(1)]

\* capabilities.zoom is undefined
NoZoomCapability == [present |-> FALSE, min |-> 0, max |-> 0]

ZoomCapabilities ==
  {NoZoomCapability}
    \cup {[present |-> TRUE, min |-> lo, max |-> hi] : lo \in 0..1, hi \in 0..MaxZoom}

\* native resolutions of the camera
Resolutions ==
  {<<w, h>> : w \in 0..MaxDim, h \in 0..MaxDim} \cup {<<1200, 900>>, <<640, 480>>}

\* what the camera delivers to getUserMedia in the page
CameraResolutions == {<<1200, 900>>}

\* a MediaStream: its video track (if any), the track's state, capabilities
\* and current hardware zoom, and the resolution of its frames
Stream(hasTrack, caps, zoomCap, res) ==
  [state |-> "live", hasVideoTrack |-> hasTrack, getCapabilities |-> caps,
   zoomCapability |-> zoomCap, zoom |-> R(1), width |-> res[1], height |-> res[2]]

\* track.stop() on every track of the stream
StopTracksLeavesLive(strs, s) == strs
StopTracks(strs, s) ==
  IF s \in DOMAIN strs THEN [strs EXCEPT ![s].state = "ended"] ELSE strs

LiveStreams == {s \in DOMAIN streams : streams[s].state = "live"}

(***************************************************************************)
(* zoomUtils.ts                                                            *)
(***************************************************************************)
\* the magnification of what the element shows, relative to the unzoomed
\* sensor: the track's hardware zoom times the CSS scale of the element
CssScale(t) == IF t.fn = "scale" THEN t.arg ELSE R(1)
PreviewMagnification(el, stream) == RMul(stream.zoom, CssScale(el.transform))

\* the magnification of a still relative to the unzoomed sensor: the
\* hardware zoom of the frame it was cut from times output width / crop width
StillMagnification(img) == RMul(img.sourceZoom, RDiv(R(img.width), img.sw))

\* cropWidth = videoWidth / CAMERA_ZOOM_FACTOR (and the same for the height)
CropSizeTimesFactor(size) == RMul(R(size), CAMERA_ZOOM_FACTOR)
CropSize(size) == RDiv(R(size), CAMERA_ZOOM_FACTOR)

\* offsetX = (videoWidth - cropWidth) / 2
CropOffset(size, crop) == RDiv(RSub(R(size), crop), R(2))

\* the platform call of extractZoomedFrame that throws, if any: ctx.drawImage
\* (line 169) or the encoder call, canvas.toDataURL / canvas.toBlob
Throws == {"none", "drawImage", "encode"}

\* extractZoomedFrame(videoElement, format, quality): ctxOk is whether
\* canvas.getContext('2d') returns a context, threw the platform call that
\* throws, encodeOk whether the encoder produces output; sourceZoom is the
\* hardware zoom of the frame drawn
ExtractZoomedFrame(videoElement, sourceZoom, format, ctxOk, threw, encodeOk) ==
  IF ~videoElement.current
  THEN [outcome |-> "error", error |-> "Video element is required",
        canvasCreated |-> FALSE, canvasRemoved |-> FALSE, image |-> NullImage]
  ELSE IF ~ctxOk
  THEN [outcome |-> "error", error |-> "Failed to get canvas context",
        canvasCreated |-> TRUE, canvasRemoved |-> TRUE, image |-> NullImage]
  ELSE IF threw = "drawImage"
  THEN [outcome |-> "error", error |-> "drawImage",
        canvasCreated |-> TRUE, canvasRemoved |-> FALSE, image |-> NullImage]
  ELSE IF threw = "encode"
  THEN [outcome |-> "error", error |-> "encode",
        canvasCreated |-> TRUE, canvasRemoved |-> TRUE, image |-> NullImage]
  ELSE
    LET videoWidth == videoElement.videoWidth
        videoHeight == videoElement.videoHeight
        cropWidth == CropSize(videoWidth)
        cropHeight == CropSize(videoHeight)
        offsetX == CropOffset(videoWidth, cropWidth)
        offsetY == CropOffset(videoHeight, cropHeight)
        encoded == encodeOk /\ videoWidth > 0 /\ videoHeight > 0
        image == [data |-> IF encoded THEN "jpeg" ELSE "empty",
                  width |-> videoWidth, height |-> videoHeight,
                  sx |-> offsetX, sy |-> offsetY, sw |-> cropWidth, sh |-> cropHeight,
                  sourceZoom |-> sourceZoom]
    IN IF format = "dataURL"
       THEN [outcome |-> "dataURL", error |-> "",
             canvasCreated |-> TRUE, canvasRemoved |-> TRUE, image |-> image]
       ELSE IF encoded
       THEN [outcome |-> "blob", error |-> "",
             canvasCreated |-> TRUE, canvasRemoved |-> TRUE, image |-> image]
       ELSE [outcome |-> "error", error |-> "Failed to create blob from canvas",
             canvasCreated |-> TRUE, canvasRemoved |-> TRUE, image |-> NullImage]

NoExtraction ==
  [outcome |-> "none", error |-> "", canvasCreated |-> FALSE, canvasRemoved |-> FALSE,
   image |-> NullImage]

\* capabilities.zoom && capabilities.zoom.min && capabilities.zoom.max
ZoomSupported(cap) == cap.present /\ cap.min # 0 /\ cap.max # 0

\* zoomValue = Math.min(CAMERA_ZOOM_FACTOR, capabilities.zoom.max)
ZoomValueUnclamped(cap) == CAMERA_ZOOM_FACTOR
ZoomValue(cap) == RMin(CAMERA_ZOOM_FACTOR, R(cap.max))

\* the CSS fallback of applyVideoZoom
CssZoom(el) ==
  [el EXCEPT !.transform = ScaleTransform(CAMERA_ZOOM_FACTOR), !.transformOrigin = "center"]

\* resetVideoZoom(videoElement)
ResetVideoZoomKeepsTransform(el) == el
ResetVideoZoom(el) ==
  IF ~el.current THEN el
  ELSE [el EXCEPT !.transform = NoTransform, !.transformOrigin = ""]

(***************************************************************************)
(* useCameraStream.ts                                                      *)
(***************************************************************************)
\* videoRef.current.srcObject = null: the element drops its media resource
Unbind(el) ==
  [el EXCEPT !.srcObject = 0, !.readyState = 0, !.videoWidth = 0, !.videoHeight = 0]

\* videoRef.current.srcObject = stream: the element loads the new resource
Bind(el, s) ==
  [el EXCEPT !.srcObject = s, !.readyState = 0, !.videoWidth = 0, !.videoHeight = 0]

\* initCamera up to its first await: pc is where it stops
InitCamera(enabled, el, strs) ==
  IF ~el.current THEN [videoRef |-> el, streams |-> strs, pc |-> "done"]
  ELSE IF ~enabled
  THEN IF el.srcObject # 0
       THEN [videoRef |-> Unbind(el), streams |-> StopTracks(strs, el.srcObject),
             pc |-> "done"]
       ELSE [videoRef |-> el, streams |-> strs, pc |-> "done"]
  ELSE IF el.srcObject # 0 THEN [videoRef |-> el, streams |-> strs, pc |-> "done"]
  ELSE [videoRef |-> el, streams |-> strs, pc |-> "getUserMedia"]

\* the function the effect returns: stream is the effect's own variable,
\* 0 while getUserMedia has not resolved
CleanupKeepsTracks(stream, el, strs) ==
  [videoRef |-> IF el.current THEN Unbind(el) ELSE el, streams |-> strs]
Cleanup(stream, el, strs) ==
  [videoRef |-> IF el.current THEN Unbind(el) ELSE el,
   streams |-> StopTracks(strs, stream)]

\* the error message initCamera's catch block hands to onStreamError
StreamErrorMessageAlwaysGeneric(name) ==
  "Camera access denied or unavailable. Please check permissions."
StreamErrorMessage(name) ==
  IF name = "NotFoundError"
  THEN "No camera found. Please ensure a camera is connected and enabled."
  ELSE IF name = "NotAllowedError"
  THEN "Camera access was denied. Please grant permission in your browser settings."
  ELSE "Camera access denied or unavailable. Please check permissions."

ErrorNames == {"NotFoundError", "NotAllowedError", "NotReadableError", "OverconstrainedError"}

(***************************************************************************)
(* Placed points (types, handleImageAreaClick, CapturedImageView)          *)
(***************************************************************************)
\* Math.max
RMax(a, b) == IF RLess(a, b) THEN b ELSE a

RECURSIVE Gcd(_, _)
Gcd(a, b) == IF b = 0 THEN a ELSE Gcd(b, a % b)

Abs(n) == IF n < 0 THEN -n ELSE n

\* the number a fraction denotes: lowest terms, positive denominator
RNorm(a) ==
  LET g == Gcd(Abs(a[1]), Abs(a[2]))
      sign == IF a[2] < 0 THEN -1 ELSE 1
  IN <<sign * (a[1] \div g), sign * (a[2] \div g)>>

\* type TestType
TestTypes == {"CREATININE", "ALB", "ALP", "WHITE"}

\* event.currentTarget.getBoundingClientRect() of the captured image area
ImageRect == [left |-> 1, top |-> 1, width |-> 4, height |-> 2]

\* pointer positions of click events: left of the area (a raw ratio of
\* -1/4) at half its height
ClickEvents == {[clientX |-> 0, clientY |-> 2]}

Keys == {"Enter", " ", "Tab"}

\* (event.clientX - rect.left) / rect.width
RawRatio(client, origin, size) == RNorm(RDiv(RSub(client, R(origin)), R(size)))

\* Math.max(0, Math.min(1, ratio))
ClampedUnclamped(ratio) == ratio
Clamped(ratio) == RMax(R(0), RMin(R(1), ratio))

\* `point-${Date.now()}-${random}`: an id no point of the list carries
PointId(prev) ==
  <<"point", CHOOSE n \in 1..(Len(prev) + 1) : \A k \in DOMAIN prev : prev[k].id[2] # n>>

\* the updater of setPlacedCrosshairs in handleImageAreaClick
AppendPoint(prev, x, y, testType) ==
  Append(prev, [id |-> PointId(prev), x |-> x, y |-> y, testType |-> testType,
                pointIndex |-> Len(prev) + 1])

\* handleClearLastPoint: prev.slice(0, -1)
ClearLastPointDropsFirst(prev) == IF prev = <<>> THEN <<>> ELSE Tail(prev)
ClearLastPoint(prev) == IF prev = <<>> THEN <<>> ELSE SubSeq(prev, 1, Len(prev) - 1)

\* whitePointCount, analysisPointCount, canAnalyze
WhitePointCount(points) == Cardinality({k \in DOMAIN points : points[k].testType = "WHITE"})
AnalysisPointCount(points) ==
  Cardinality({k \in DOMAIN points : points[k].testType # "WHITE"})
CanAnalyzeWithoutReference(points) == AnalysisPointCount(points) > 0
CanAnalyze(points) == WhitePointCount(points) = 1 /\ AnalysisPointCount(points) > 0

(***************************************************************************)
(* analysisService (sendAnalysisData)                                      *)
(***************************************************************************)
MaxResults == 2

\* isValidDataUrl(url): startsWith('data:image/') && includes('base64,');
\* "jpeg" is a data:image/jpeg;base64 URL, "empty" is 'data:,'
IsValidDataUrl(url) == url.data = "jpeg"

\* crosshairs.map((ch) => ({ id, x, y, testType, pointIndex })): the array
\* that is serialised into the points.json part
CrosshairsDataSwapsAxes(crosshairs) ==
  [k \in DOMAIN crosshairs |->
     [id |-> crosshairs[k].id, x |-> crosshairs[k].y, y |-> crosshairs[k].x,
      testType |-> crosshairs[k].testType, pointIndex |-> crosshairs[k].pointIndex]]
CrosshairsData(crosshairs) ==
  [k \in DOMAIN crosshairs |->
     [id |-> crosshairs[k].id, x |-> crosshairs[k].x, y |-> crosshairs[k].y,
      testType |-> crosshairs[k].testType, pointIndex |-> crosshairs[k].pointIndex]]

\* AnalysisServiceResponse
Success(results) == [success |-> TRUE, results |-> results, error |-> ""]
Failure(message) == [success |-> FALSE, results |-> <<>>, error |-> message]

\* an element of responseData.results: null, or a value whose fields have
\* the given typeof
ResultElement(pointIndexType, concentrationType, remarks) ==
  [isNull |-> FALSE, pointIndexType |-> pointIndexType, pointIndex |-> 2,
   testTypeType |-> "string", test_type |-> "ALB",
   concentrationType |-> concentrationType, concentration |-> 5,
   remarksType |-> "string", remarks |-> remarks]

NullElement == [ResultElement("undefined", "undefined", "") EXCEPT !.isNull = TRUE]

ResultElements ==
  {ResultElement("number", "number", "normal"),   \* well typed
   ResultElement("number", "number", "severe"),   \* remarks outside the set
   ResultElement("string", "number", "low"),      \* pointIndex is a string
   NullElement}

\* the filter predicate of validResults
IsValidResultIgnoresRemarks(candidate) ==
  /\ candidate.pointIndexType = "number"
  /\ candidate.testTypeType = "string"
  /\ candidate.concentrationType = "number"
  /\ candidate.remarksType = "string"
IsValidResult(candidate) ==
  /\ candidate.pointIndexType = "number"
  /\ candidate.testTypeType = "string"
  /\ candidate.concentrationType = "number"
  /\ candidate.remarksType = "string"
  /\ candidate.remarks \in {"none", "low", "normal", "high"}

\* what the POST ends in: the 30 s abort, a transport failure, or a
\* response with a status and a body; the body "stalled" is one whose
\* bytes never finish arriving
Arrays == UNION {[1..n -> ResultElements] : n \in 0..MaxResults}

Responses ==
  {[kind |-> k, ok |-> FALSE, body |-> "none", results |-> <<>>] :
     k \in {"timeout", "transport"}}
    \cup {[kind |-> "http", ok |-> ok, body |-> b, results |-> <<>>] :
            ok \in BOOLEAN, b \in {"notJson", "noResults", "resultsNotArray", "stalled"}}
    \cup {[kind |-> "http", ok |-> ok, body |-> "array", results |-> a] :
            ok \in BOOLEAN, a \in Arrays}

\* the responses the page is run against: one of every kind, and arrays
\* with no, one and two well-typed elements and with one that is dropped
PageResponses ==
  {r \in Responses :
     \/ r.body # "array" /\ (r.kind = "http" => r.ok)
     \/ r.body = "array" /\ ~r.ok /\ r.results = <<ResultElement("number", "number", "normal")>>
     \/ /\ r.body = "array" /\ r.ok /\ Len(r.results) <= 2
        /\ \A k \in DOMAIN r.results :
             /\ r.results[k].pointIndexType = "number"
             /\ k = 1 => IsValidResult(r.results[k])}

\* sendAnalysisData from the response of the POST to its return
HandleResponseKeepsInvalid(response) ==
  IF response.kind = "timeout" THEN Failure("Request timed out - please try again")
  ELSE IF response.kind = "transport" THEN Failure("Failed to fetch")
  ELSE IF ~response.ok THEN Failure("Server error")
  ELSE IF response.body = "notJson" THEN Failure("SyntaxError")
  ELSE IF response.body # "array" THEN Failure("Invalid response format from server")
  ELSE IF \E k \in DOMAIN response.results : response.results[k].isNull
  THEN Failure("TypeError")
  ELSE IF Len(SelectSeq(response.results, IsValidResult)) = 0
  THEN Failure("No valid concentration results received from server")
  ELSE Success(response.results)
HandleResponse(response) ==
  IF response.kind = "timeout" THEN Failure("Request timed out - please try again")
  ELSE IF response.kind = "transport" THEN Failure("Failed to fetch")
  ELSE IF ~response.ok THEN Failure("Server error")
  ELSE IF response.body = "notJson" THEN Failure("SyntaxError")
  ELSE IF response.body # "array" THEN Failure("Invalid response format from server")
  ELSE IF \E k \in DOMAIN response.results : response.results[k].isNull
  THEN Failure("TypeError")
  ELSE LET validResults == SelectSeq(response.results, IsValidResult)
       IN IF Len(validResults) = 0
          THEN Failure("No valid concentration results received from server")
          ELSE Success(validResults)

\* no sendAnalysisData call is in progress
NoRequest ==
  [pc |-> "idle", imageDataUrl |-> NullImage, crosshairs |-> <<>>, payload |-> <<>>,
   fetches |-> 0, posts |-> 0,
   response |-> [kind |-> "none", ok |-> FALSE, body |-> "none", results |-> <<>>],
   result |-> Failure("")]

\* sendAnalysisData({ imageDataUrl, crosshairs }) up to its first await
SendAnalysisDataCall(imageDataUrl, crosshairs) ==
  IF ~IsValidDataUrl(imageDataUrl)
  THEN [NoRequest EXCEPT !.pc = "return", !.imageDataUrl = imageDataUrl,
                         !.crosshairs = crosshairs,
                         !.result = Failure("Invalid image data URL format")]
  ELSE [NoRequest EXCEPT !.pc = "fetchImage", !.imageDataUrl = imageDataUrl,
                         !.crosshairs = crosshairs, !.fetches = 1]

\* from the settling of fetch(imageDataUrl) to the POST or the return:
\* imageOk is whether the fetch of the data URL gave a blob, apiUrl whether
\* process.env.NEXT_PUBLIC_API_URL is set
SendAnalysisDataPostSkipsUrlCheck(req, imageOk, apiUrl) ==
  IF ~imageOk
  THEN [req EXCEPT !.pc = "return", !.result = Failure("Failed to fetch")]
  ELSE [req EXCEPT !.pc = "post", !.payload = CrosshairsData(req.crosshairs),
                   !.fetches = req.fetches + 1, !.posts = req.posts + 1]
SendAnalysisDataPost(req, imageOk, apiUrl) ==
  IF ~imageOk
  THEN [req EXCEPT !.pc = "return", !.result = Failure("Failed to fetch")]
  ELSE IF ~apiUrl
  THEN [req EXCEPT !.pc = "return", !.payload = CrosshairsData(req.crosshairs),
                   !.result = Failure("Client configuration error: API URL is missing.")]
  ELSE [req EXCEPT !.pc = "post", !.payload = CrosshairsData(req.crosshairs),
                   !.fetches = req.fetches + 1, !.posts = req.posts + 1]

(***************************************************************************)
(* CameraAppPage                                                           *)
(***************************************************************************)
\* enabled: !showInfoOverlay && !capturedImageDataUrl && !isLoadingAnalysis
Enabled(overlay, captured, loading) == ~overlay /\ captured = NullImage /\ ~loading

\* the <video> is rendered by LiveCameraView: the page is past the info
\* overlay and CameraDisplay has no captured image
VideoRendered(isMounted, overlay, captured) ==
  isMounted /\ ~overlay /\ captured = NullImage

\* One React commit after the page's state changed to the given values:
\* refs of removed elements are detached and refs of new elements attached,
\* then, when `enabled` changed or the page unmounts, the cleanup of the
\* current effect runs, and then (unless unmounting) the new effect
\* instance runs initCamera.
Commit(isMounted, overlay, captured, loading) ==
  LET wasRendered == VideoRendered(mounted, showInfoOverlay, capturedImageDataUrl)
      isRendered == VideoRendered(isMounted, overlay, captured)
      el == IF isRendered THEN (IF wasRendered THEN videoRef ELSE NewVideo) ELSE NullVideo
      before == Enabled(showInfoOverlay, capturedImageDataUrl, isLoadingAnalysis)
      after == Enabled(overlay, captured, loading)
      cur == Len(effects)
      c == Cleanup(effects[cur].stream, el, streams)
      i == InitCamera(after, c.videoRef, c.streams)
      cleaned == [effects EXCEPT ![cur].cleaned = TRUE]
  IN IF ~isMounted
     THEN /\ videoRef' = c.videoRef
          /\ streams' = c.streams
          /\ effects' = cleaned
     ELSE IF after # before
     THEN /\ videoRef' = i.videoRef
          /\ streams' = i.streams
          /\ effects' = Append(cleaned, [enabled |-> after, stream |-> 0,
                                         pc |-> i.pc, cleaned |-> FALSE])
     ELSE /\ videoRef' = el
          /\ UNCHANGED <<effects, streams>>

\* a commit may start a new effect instance
CanCommit == Len(effects) < MaxEffects

NullResult == <<>>

Init ==
  /\ mounted = TRUE
  /\ showInfoOverlay = TRUE
  /\ capturedImageDataUrl = NullImage
  /\ currentTestType = "WHITE"
  /\ toastMessage = ""
  /\ placedCrosshairs = <<>>
  /\ analysisResult = NullResult
  /\ isLoadingAnalysis = FALSE
  /\ showResultsModal = FALSE
  /\ isPostAnalysis = FALSE
  /\ videoRef = NullVideo
  /\ effects = <<[enabled |-> FALSE, stream |-> 0, pc |-> "done", cleaned |-> FALSE]>>
  /\ streams = <<>>
  /\ zoomState = "idle"
  /\ zoomRequested = R(0)
  /\ extraction = NoExtraction
  /\ lastCall = "none"
  /\ request = NoRequest

\* InfoOverlay onStartAnalysis: setShowInfoOverlay(false)
StartAnalysis ==
  /\ mounted /\ showInfoOverlay /\ CanCommit
  /\ showInfoOverlay' = FALSE
  /\ Commit(mounted, FALSE, capturedImageDataUrl, isLoadingAnalysis)
  /\ UNCHANGED <<mounted, capturedImageDataUrl, currentTestType, toastMessage,
                 placedCrosshairs, analysisResult, isLoadingAnalysis,
                 showResultsModal, isPostAnalysis>>
  /\ UNCHANGED zoomVars
  /\ UNCHANGED serviceVars

\* onStreamError = handleStreamError: setToastMessage(message); React drops
\* a state update of an unmounted component
OnStreamError(message) == toastMessage' = IF mounted THEN message ELSE toastMessage

\* getUserMedia resolves for effect instance i with a camera stream
GetUserMediaResolve(i) ==
  /\ effects[i].pc = "getUserMedia"
  /\ \E res \in CameraResolutions :
       LET s == Len(streams) + 1 IN
       /\ streams' = Append(streams, Stream(TRUE, "ok", NoZoomCapability, res))
       /\ IF videoRef.current
          THEN /\ videoRef' = Bind(videoRef, s)
               /\ effects' = [effects EXCEPT ![i].stream = s, ![i].pc = "play"]
          ELSE /\ videoRef' = videoRef
               /\ effects' = [effects EXCEPT ![i].stream = s, ![i].pc = "done"]
  /\ UNCHANGED pageVars
  /\ UNCHANGED zoomVars
  /\ UNCHANGED serviceVars

\* getUserMedia rejects for effect instance i: the catch block reports
GetUserMediaReject(i) ==
  /\ effects[i].pc = "getUserMedia"
  /\ \E name \in ErrorNames : OnStreamError(StreamErrorMessage(name))
  /\ effects' = [effects EXCEPT ![i].pc = "done"]
  /\ UNCHANGED <<mounted, showInfoOverlay, capturedImageDataUrl, currentTestType,
                 placedCrosshairs, analysisResult, isLoadingAnalysis,
                 showResultsModal, isPostAnalysis>>
  /\ UNCHANGED <<videoRef, streams>>
  /\ UNCHANGED zoomVars
  /\ UNCHANGED serviceVars

\* the element bound to a live stream gets the stream's dimensions
LoadedMetadata ==
  /\ videoRef.current /\ videoRef.srcObject # 0 /\ videoRef.readyState = 0
  /\ streams[videoRef.srcObject].state = "live"
  /\ videoRef' = [videoRef EXCEPT !.readyState = 1,
                                  !.videoWidth = streams[videoRef.srcObject].width,
                                  !.videoHeight = streams[videoRef.srcObject].height]
  /\ UNCHANGED pageVars
  /\ UNCHANGED <<effects, streams>>
  /\ UNCHANGED zoomVars
  /\ UNCHANGED serviceVars

\* videoRef.current.play() of effect instance i resolves: playback started
PlayResolve(i) ==
  /\ effects[i].pc = "play"
  /\ videoRef.current /\ videoRef.srcObject = effects[i].stream
  /\ videoRef.readyState >= 1
  /\ streams[videoRef.srcObject].state = "live"
  /\ videoRef' = [videoRef EXCEPT !.readyState = 4]
  /\ effects' = [effects EXCEPT ![i].pc = "done"]
  /\ UNCHANGED pageVars
  /\ UNCHANGED streams
  /\ UNCHANGED zoomVars
  /\ UNCHANGED serviceVars

\* play() of effect instance i rejects (autoplay refused, or the element was
\* removed or rebound while the promise was pending): .catch reports
PlayReject(i) ==
  /\ effects[i].pc = "play"
  /\ OnStreamError("Could not play video stream.")
  /\ effects' = [effects EXCEPT ![i].pc = "done"]
  /\ UNCHANGED <<mounted, showInfoOverlay, capturedImageDataUrl, currentTestType,
                 placedCrosshairs, analysisResult, isLoadingAnalysis,
                 showResultsModal, isPostAnalysis>>
  /\ UNCHANGED <<videoRef, streams>>
  /\ UNCHANGED zoomVars
  /\ UNCHANGED serviceVars

\* the hardware zoom of the frames the element shows
SourceZoom(video, strs) ==
  IF video.srcObject \in DOMAIN strs THEN strs[video.srcObject].zoom ELSE R(1)

\* the guard of handleCaptureImage: !video?.readyState || video.videoWidth === 0
VideoNotReadyChecksElementOnly(video) == ~video.current
VideoNotReady(video) ==
  ~video.current \/ video.readyState = 0 \/ video.videoWidth = 0

\* handleCaptureImage up to its state updates: the message it sets, the
\* extractZoomedFrame call it made (NoExtraction when it made none) and
\* whether it goes on to store the still
CaptureImage(video, strs, ctxOk, threw, encodeOk) ==
  IF VideoNotReady(video)
  THEN [toast |-> "Video stream not ready. Please ensure camera access is granted.",
        extraction |-> NoExtraction, captured |-> FALSE]
  ELSE LET r == ExtractZoomedFrame(video, SourceZoom(video, strs), "dataURL", ctxOk,
                                   threw, encodeOk)
       IN IF r.outcome = "error"
          THEN [toast |-> "Failed to capture image. Please try again.",
                extraction |-> r, captured |-> FALSE]
          ELSE [toast |-> "", extraction |-> r, captured |-> TRUE]

\* handleCaptureImage (the Capture Image button is rendered while there is
\* no captured image and is disabled while isLoadingAnalysis)
HandleCaptureImage ==
  /\ mounted /\ ~showInfoOverlay /\ capturedImageDataUrl = NullImage
  /\ ~isLoadingAnalysis
  /\ \E ctxOk \in BOOLEAN, threw \in Throws, encodeOk \in BOOLEAN :
       LET c == CaptureImage(videoRef, streams, ctxOk, threw, encodeOk)
       IN /\ toastMessage' = c.toast
          /\ IF c.captured
             THEN /\ CanCommit
                  /\ capturedImageDataUrl' = c.extraction.image
                  /\ placedCrosshairs' = <<>>
                  /\ analysisResult' = NullResult
                  /\ showResultsModal' = FALSE
                  /\ Commit(mounted, showInfoOverlay, c.extraction.image,
                            isLoadingAnalysis)
             ELSE /\ UNCHANGED <<capturedImageDataUrl, placedCrosshairs, analysisResult,
                                 showResultsModal>>
                  /\ UNCHANGED hookVars
  /\ UNCHANGED <<mounted, showInfoOverlay, currentTestType, isLoadingAnalysis,
                 isPostAnalysis>>
  /\ UNCHANGED zoomVars
  /\ UNCHANGED serviceVars

\* resetToCaptureState (Retake Image, disabled while isLoadingAnalysis)
ResetToCaptureState ==
  /\ mounted /\ ~showInfoOverlay /\ capturedImageDataUrl # NullImage
  /\ ~isLoadingAnalysis /\ CanCommit
  /\ capturedImageDataUrl' = NullImage
  /\ placedCrosshairs' = <<>>
  /\ analysisResult' = NullResult
  /\ showResultsModal' = FALSE
  /\ toastMessage' = ""
  /\ isLoadingAnalysis' = FALSE
  /\ currentTestType' = "ALB"
  /\ isPostAnalysis' = FALSE
  /\ Commit(mounted, showInfoOverlay, NullImage, FALSE)
  /\ UNCHANGED <<mounted, showInfoOverlay>>
  /\ UNCHANGED zoomVars
  /\ UNCHANGED serviceVars

\* Toast onClose: setToastMessage('')
ToastClose ==
  /\ mounted /\ ~showInfoOverlay /\ toastMessage # ""
  /\ toastMessage' = ""
  /\ UNCHANGED <<mounted, showInfoOverlay, capturedImageDataUrl, currentTestType,
                 placedCrosshairs, analysisResult, isLoadingAnalysis,
                 showResultsModal, isPostAnalysis>>
  /\ UNCHANGED hookVars
  /\ UNCHANGED zoomVars
  /\ UNCHANGED serviceVars

\* CapturedImageView is rendered (CameraDisplay shows it instead of the
\* <video> when there is a captured image)
StillRendered == mounted /\ ~showInfoOverlay /\ capturedImageDataUrl # NullImage

\* AnalysisTopControls is rendered and enabled: {!isPostAnalysis && ...},
\* disabled={isLoadingAnalysis}
TopControlsEnabled == StillRendered /\ ~isPostAnalysis /\ ~isLoadingAnalysis

\* ResultsModal is rendered: {showResultsModal && analysisResult && ...};
\* its root is a `fixed inset-0 z-50` layer over the whole page
ModalRendered == mounted /\ ~showInfoOverlay /\ showResultsModal /\ analysisResult # NullResult

\* the values of the render that created a handleImageAreaClick callback
\* (its useCallback dependencies)
Rendered ==
  [capturedImageDataUrl |-> capturedImageDataUrl, currentTestType |-> currentTestType,
   isLoadingAnalysis |-> isLoadingAnalysis, placedCrosshairs |-> placedCrosshairs,
   isPostAnalysis |-> isPostAnalysis, showResultsModal |-> showResultsModal]

\* one call of the handleImageAreaClick that a render created, for an event
\* at (clientX, clientY): the guards and the WHITE check read the values of
\* that render, the updater of setPlacedCrosshairs is applied to prev, the
\* list as the calls queued before it leave it. set is whether
\* setToastMessage is called.
ImageAreaClickCall(closure, prev, clientX, clientY) ==
  LET x == Clamped(RawRatio(clientX, ImageRect.left, ImageRect.width))
      y == Clamped(RawRatio(clientY, ImageRect.top, ImageRect.height))
  IN IF closure.capturedImageDataUrl = NullImage \/ closure.isLoadingAnalysis
     THEN [points |-> prev, set |-> FALSE, toast |-> ""]
     ELSE IF closure.isPostAnalysis /\ ~closure.showResultsModal
     THEN [points |-> prev, set |-> FALSE, toast |-> ""]
     ELSE IF /\ closure.currentTestType = "WHITE"
             /\ WhitePointCount(closure.placedCrosshairs) > 0
     THEN [points |-> prev, set |-> TRUE,
           toast |-> "Only ONE white reference point allowed."]
     ELSE [points |-> AppendPoint(prev, x, y, closure.currentTestType),
           set |-> TRUE, toast |-> ""]

\* the bound on the list: MaxPoints while points are edited, one more while
\* results are held, so that a placement on a submitted list of MaxPoints
\* points is within the bound
PointLimit == IF isPostAnalysis THEN MaxPoints + 1 ELSE MaxPoints

\* handleImageAreaClick(event) for an event at (clientX, clientY), called
\* in a task of its own: the page has rendered since the last update
HandleImageAreaClick(clientX, clientY) ==
  /\ StillRendered
  /\ LET c == ImageAreaClickCall(Rendered, placedCrosshairs, clientX, clientY)
     IN /\ Len(c.points) <= PointLimit
        /\ placedCrosshairs' = c.points
        /\ toastMessage' = IF c.set THEN c.toast ELSE toastMessage
  /\ UNCHANGED <<mounted, showInfoOverlay, capturedImageDataUrl, currentTestType,
                 analysisResult, isLoadingAnalysis, showResultsModal, isPostAnalysis>>
  /\ UNCHANGED hookVars
  /\ UNCHANGED zoomVars
  /\ UNCHANGED serviceVars

\* onClick of the captured image area (the pointer cannot reach the area
\* under the results modal)
ImageAreaClick ==
  /\ ~ModalRendered
  /\ \E event \in ClickEvents : HandleImageAreaClick(R(event.clientX), R(event.clientY))

\* two events dispatched to the captured image area within one task (two
\* synchronous dispatches, before React has rendered the first update):
\* both reach the callback of the same render, and the updaters run in order
ImageAreaClickTwice ==
  /\ StillRendered /\ ~ModalRendered
  /\ \E first \in ClickEvents, second \in ClickEvents :
       LET c1 == ImageAreaClickCall(Rendered, placedCrosshairs,
                                    R(first.clientX), R(first.clientY))
           c2 == ImageAreaClickCall(Rendered, c1.points,
                                    R(second.clientX), R(second.clientY))
       IN /\ Len(c2.points) <= PointLimit
          /\ placedCrosshairs' = c2.points
          /\ toastMessage' = IF c2.set THEN c2.toast
                             ELSE IF c1.set THEN c1.toast ELSE toastMessage
  /\ UNCHANGED <<mounted, showInfoOverlay, capturedImageDataUrl, currentTestType,
                 analysisResult, isLoadingAnalysis, showResultsModal, isPostAnalysis>>
  /\ UNCHANGED hookVars
  /\ UNCHANGED zoomVars
  /\ UNCHANGED serviceVars

\* CapturedImageView.handleKeyDown: Enter or Space clicks the centre
HandleKeyDown ==
  \E key \in Keys :
    /\ key = "Enter" \/ key = " "
    /\ HandleImageAreaClick(RAdd(R(ImageRect.left), RDiv(R(ImageRect.width), R(2))),
                            RAdd(R(ImageRect.top), RDiv(R(ImageRect.height), R(2))))

\* onTestTypeChange = setCurrentTestType, from the <select>
SetCurrentTestType ==
  /\ TopControlsEnabled
  /\ \E testType \in TestTypes \ {currentTestType} : currentTestType' = testType
  /\ UNCHANGED <<mounted, showInfoOverlay, capturedImageDataUrl, toastMessage,
                 placedCrosshairs, analysisResult, isLoadingAnalysis,
                 showResultsModal, isPostAnalysis>>
  /\ UNCHANGED hookVars
  /\ UNCHANGED zoomVars
  /\ UNCHANGED serviceVars

\* handleClearLastPoint (Clear Last, disabled while the list is empty)
HandleClearLastPoint ==
  /\ TopControlsEnabled /\ Len(placedCrosshairs) # 0
  /\ placedCrosshairs' = ClearLastPoint(placedCrosshairs)
  /\ UNCHANGED <<mounted, showInfoOverlay, capturedImageDataUrl, currentTestType,
                 toastMessage, analysisResult, isLoadingAnalysis,
                 showResultsModal, isPostAnalysis>>
  /\ UNCHANGED hookVars
  /\ UNCHANGED zoomVars
  /\ UNCHANGED serviceVars

\* handleClearAllPoints (Clear All, disabled while the list is empty)
HandleClearAllPointsResetsType ==
  /\ TopControlsEnabled /\ Len(placedCrosshairs) # 0
  /\ placedCrosshairs' = <<>>
  /\ currentTestType' = "WHITE"
  /\ UNCHANGED <<mounted, showInfoOverlay, capturedImageDataUrl,
                 toastMessage, analysisResult, isLoadingAnalysis,
                 showResultsModal, isPostAnalysis>>
  /\ UNCHANGED hookVars
  /\ UNCHANGED zoomVars
  /\ UNCHANGED serviceVars
HandleClearAllPoints ==
  /\ TopControlsEnabled /\ Len(placedCrosshairs) # 0
  /\ placedCrosshairs' = <<>>
  /\ UNCHANGED <<mounted, showInfoOverlay, capturedImageDataUrl, currentTestType,
                 toastMessage, analysisResult, isLoadingAnalysis,
                 showResultsModal, isPostAnalysis>>
  /\ UNCHANGED hookVars
  /\ UNCHANGED zoomVars
  /\ UNCHANGED serviceVars

\* handleEditPoints (Edit Points: ActionButtons in post-analysis mode)
HandleEditPoints ==
  /\ StillRendered /\ isPostAnalysis /\ ~showResultsModal /\ ~isLoadingAnalysis
  /\ analysisResult' = NullResult
  /\ showResultsModal' = FALSE
  /\ toastMessage' = ""
  /\ isPostAnalysis' = FALSE
  /\ UNCHANGED <<mounted, showInfoOverlay, capturedImageDataUrl, currentTestType,
                 placedCrosshairs, isLoadingAnalysis>>
  /\ UNCHANGED hookVars
  /\ UNCHANGED zoomVars
  /\ UNCHANGED serviceVars

\* ResultsModal onClose: setShowResultsModal(false)
CloseResultsModal ==
  /\ mounted /\ ~showInfoOverlay /\ showResultsModal /\ analysisResult # NullResult
  /\ showResultsModal' = FALSE
  /\ UNCHANGED <<mounted, showInfoOverlay, capturedImageDataUrl, currentTestType,
                 toastMessage, placedCrosshairs, analysisResult, isLoadingAnalysis,
                 isPostAnalysis>>
  /\ UNCHANGED hookVars
  /\ UNCHANGED zoomVars
  /\ UNCHANGED serviceVars

\* handleSendData up to its await: the message it sets and whether it goes
\* on to call sendAnalysisData
SendDataStart(captured, points) ==
  IF captured = NullImage
  THEN [send |-> FALSE, toast |-> "No image captured."]
  ELSE IF ~CanAnalyze(points)
  THEN [send |-> FALSE,
        toast |-> "Exactly one WHITE reference point and at least one analysis point required."]
  ELSE [send |-> TRUE, toast |-> ""]

\* handleSendData (Analyze: ActionButtons outside post-analysis mode,
\* disabled={!canAnalyze || isLoadingAnalysis})
HandleSendDataWhileLoading ==
  /\ StillRendered /\ ~(isPostAnalysis /\ ~showResultsModal)
  /\ CanAnalyze(placedCrosshairs)
  /\ LET d == SendDataStart(capturedImageDataUrl, placedCrosshairs)
     IN /\ toastMessage' = d.toast
        /\ IF d.send
           THEN /\ isLoadingAnalysis' = TRUE
                /\ analysisResult' = NullResult
                /\ showResultsModal' = FALSE
                /\ request' = SendAnalysisDataCall(capturedImageDataUrl, placedCrosshairs)
                /\ Commit(mounted, showInfoOverlay, capturedImageDataUrl, TRUE)
           ELSE /\ UNCHANGED <<isLoadingAnalysis, analysisResult, showResultsModal, request>>
                /\ UNCHANGED hookVars
  /\ UNCHANGED <<mounted, showInfoOverlay, capturedImageDataUrl, currentTestType,
                 placedCrosshairs, isPostAnalysis>>
  /\ UNCHANGED zoomVars
HandleSendData ==
  /\ StillRendered /\ ~(isPostAnalysis /\ ~showResultsModal)
  /\ CanAnalyze(placedCrosshairs) /\ ~isLoadingAnalysis
  /\ LET d == SendDataStart(capturedImageDataUrl, placedCrosshairs)
     IN /\ toastMessage' = d.toast
        /\ IF d.send
           THEN /\ isLoadingAnalysis' = TRUE
                /\ analysisResult' = NullResult
                /\ showResultsModal' = FALSE
                /\ request' = SendAnalysisDataCall(capturedImageDataUrl, placedCrosshairs)
                /\ Commit(mounted, showInfoOverlay, capturedImageDataUrl, TRUE)
           ELSE /\ UNCHANGED <<isLoadingAnalysis, analysisResult, showResultsModal, request>>
                /\ UNCHANGED hookVars
  /\ UNCHANGED <<mounted, showInfoOverlay, capturedImageDataUrl, currentTestType,
                 placedCrosshairs, isPostAnalysis>>
  /\ UNCHANGED zoomVars

\* fetch(imageDataUrl) settles: sendAnalysisData builds the form and posts it
ImageFetchSettles ==
  /\ request.pc = "fetchImage"
  /\ \E imageOk \in BOOLEAN, apiUrl \in BOOLEAN :
       request' = SendAnalysisDataPost(request, imageOk, apiUrl)
  /\ UNCHANGED pageVars
  /\ UNCHANGED hookVars
  /\ UNCHANGED zoomVars

\* the POST settles with one of the given responses: clearTimeout, then
\* sendAnalysisData reads the body (response.text() / response.json()),
\* validates the response and returns; it stays at the read of a body that
\* never completes
PostSettlesRetries(responses) ==
  /\ request.pc = "post"
  /\ \E response \in responses :
       request' = IF response.body = "stalled"
                  THEN [request EXCEPT !.pc = "body", !.response = response]
                  ELSE IF ~HandleResponse(response).success /\ request.posts < 2
                  THEN [request EXCEPT !.posts = request.posts + 1]
                  ELSE [request EXCEPT !.pc = "return", !.response = response,
                                       !.result = HandleResponse(response)]
  /\ UNCHANGED pageVars
  /\ UNCHANGED hookVars
  /\ UNCHANGED zoomVars
PostSettles(responses) ==
  /\ request.pc = "post"
  /\ \E response \in responses :
       request' = IF response.body = "stalled"
                  THEN [request EXCEPT !.pc = "body", !.response = response]
                  ELSE [request EXCEPT !.pc = "return", !.response = response,
                                       !.result = HandleResponse(response)]
  /\ UNCHANGED pageVars
  /\ UNCHANGED hookVars
  /\ UNCHANGED zoomVars

\* handleSendData after its await (React drops the state updates of an
\* unmounted component)
SendDataReturnKeepsLoading ==
  /\ request.pc = "return"
  /\ request' = NoRequest
  /\ IF mounted
     THEN /\ IF request.result.success
             THEN /\ isLoadingAnalysis' = FALSE
                  /\ analysisResult' = request.result.results
                  /\ showResultsModal' = TRUE
                  /\ isPostAnalysis' = TRUE
                  /\ UNCHANGED toastMessage
             ELSE /\ toastMessage' = IF request.result.error # ""
                                     THEN request.result.error ELSE "Analysis failed."
                  /\ UNCHANGED <<isLoadingAnalysis, analysisResult, showResultsModal,
                                 isPostAnalysis>>
          /\ Commit(mounted, showInfoOverlay, capturedImageDataUrl, isLoadingAnalysis')
     ELSE /\ UNCHANGED <<isLoadingAnalysis, analysisResult, showResultsModal,
                         isPostAnalysis, toastMessage>>
          /\ UNCHANGED hookVars
  /\ UNCHANGED <<mounted, showInfoOverlay, capturedImageDataUrl, currentTestType,
                 placedCrosshairs>>
  /\ UNCHANGED zoomVars
SendDataReturn ==
  /\ request.pc = "return"
  /\ request' = NoRequest
  /\ IF mounted
     THEN /\ isLoadingAnalysis' = FALSE
          /\ IF request.result.success
             THEN /\ analysisResult' = request.result.results
                  /\ showResultsModal' = TRUE
                  /\ isPostAnalysis' = TRUE
                  /\ UNCHANGED toastMessage
             ELSE /\ toastMessage' = IF request.result.error # ""
                                     THEN request.result.error ELSE "Analysis failed."
                  /\ UNCHANGED <<analysisResult, showResultsModal, isPostAnalysis>>
          /\ Commit(mounted, showInfoOverlay, capturedImageDataUrl, FALSE)
     ELSE /\ UNCHANGED <<isLoadingAnalysis, analysisResult, showResultsModal,
                         isPostAnalysis, toastMessage>>
          /\ UNCHANGED hookVars
  /\ UNCHANGED <<mounted, showInfoOverlay, capturedImageDataUrl, currentTestType,
                 placedCrosshairs>>
  /\ UNCHANGED zoomVars

\* React unmounts CameraAppPage: the element is removed and the effect's
\* cleanup runs
Unmount ==
  /\ mounted
  /\ mounted' = FALSE
  /\ Commit(FALSE, showInfoOverlay, capturedImageDataUrl, isLoadingAnalysis)
  /\ UNCHANGED <<showInfoOverlay, capturedImageDataUrl, currentTestType, toastMessage,
                 placedCrosshairs, analysisResult, isLoadingAnalysis,
                 showResultsModal, isPostAnalysis>>
  /\ UNCHANGED zoomVars
  /\ UNCHANGED serviceVars

Next ==
  \/ StartAnalysis
  \/ \E i \in DOMAIN effects : GetUserMediaResolve(i)
  \/ \E i \in DOMAIN effects : GetUserMediaReject(i)
  \/ LoadedMetadata
  \/ \E i \in DOMAIN effects : PlayResolve(i)
  \/ \E i \in DOMAIN effects : PlayReject(i)
  \/ HandleCaptureImage
  \/ ResetToCaptureState
  \/ ToastClose
  \/ ImageAreaClick
  \/ HandleKeyDown
  \/ SetCurrentTestType
  \/ HandleClearLastPoint
  \/ HandleClearAllPoints
  \/ HandleEditPoints
  \/ CloseResultsModal
  \/ HandleSendData
  \/ ImageFetchSettles
  \/ PostSettles(PageResponses)
  \/ SendDataReturn
  \/ Unmount

Spec == Init /\ [][Next]_vars

(***************************************************************************)
(* SpecZoom: applyVideoZoom, resetVideoZoom, extractZoomedFrame and the    *)
(* hook's two release paths applied to one display surface that the hook   *)
(* has bound to stream 1.                                                  *)
(***************************************************************************)
\* the streams applyVideoZoom can be handed: with a video track whose
\* getCapabilities works ("ok"), is missing ("unsupported") or throws
\* ("throws"), or without any video track
StreamKinds ==
  {Stream(TRUE, "ok", z, res) :
     z \in {c \in ZoomCapabilities : c.min <= c.max}, res \in Resolutions}
    \cup {Stream(TRUE, caps, NoZoomCapability, res) :
            caps \in {"unsupported", "throws"}, res \in Resolutions}
    \cup {Stream(FALSE, "ok", NoZoomCapability, <<0, 0>>)}

InitZoom ==
  /\ mounted = TRUE
  /\ showInfoOverlay = FALSE
  /\ capturedImageDataUrl = NullImage
  /\ currentTestType = "WHITE"
  /\ toastMessage = ""
  /\ placedCrosshairs = <<>>
  /\ analysisResult = NullResult
  /\ isLoadingAnalysis = FALSE
  /\ showResultsModal = FALSE
  /\ isPostAnalysis = FALSE
  /\ \E s \in StreamKinds :
       /\ streams = <<s>>
       /\ videoRef = [NewVideo EXCEPT !.srcObject = 1, !.readyState = 4,
                                      !.videoWidth = s.width, !.videoHeight = s.height]
  /\ effects = <<[enabled |-> TRUE, stream |-> 1, pc |-> "done", cleaned |-> FALSE]>>
  /\ zoomState = "idle"
  /\ zoomRequested = R(0)
  /\ extraction = NoExtraction
  /\ lastCall = "none"
  /\ request = NoRequest

\* applyVideoZoom(videoElement, stream) up to its await or its return
ApplyVideoZoomStart(el, stream) ==
  IF ~stream.hasVideoTrack
  THEN [videoRef |-> el, zoomState |-> "noTrack", requested |-> R(0)]
  ELSE IF stream.getCapabilities # "ok"
  THEN [videoRef |-> el, zoomState |-> "threw", requested |-> R(0)]
  ELSE IF ZoomSupported(stream.zoomCapability)
  THEN [videoRef |-> el, zoomState |-> "awaitConstraints",
        requested |-> ZoomValue(stream.zoomCapability)]
  ELSE [videoRef |-> CssZoom(el), zoomState |-> "css", requested |-> R(0)]

ApplyVideoZoom ==
  /\ zoomState = "idle" /\ videoRef.current
  /\ LET r == ApplyVideoZoomStart(videoRef, streams[1]) IN
       /\ videoRef' = r.videoRef
       /\ zoomState' = r.zoomState
       /\ zoomRequested' = r.requested
  /\ lastCall' = "applyVideoZoom"
  /\ UNCHANGED <<effects, streams, extraction>>
  /\ UNCHANGED pageVars
  /\ UNCHANGED serviceVars

\* applyConstraints resolves: the track zooms, applyVideoZoom returns
ApplyConstraintsResolve ==
  /\ zoomState = "awaitConstraints"
  /\ streams[1].state = "live"
  /\ streams' = [streams EXCEPT ![1].zoom = zoomRequested]
  /\ zoomState' = "hardware"
  /\ lastCall' = "applyVideoZoom"
  /\ UNCHANGED <<videoRef, effects, zoomRequested, extraction>>
  /\ UNCHANGED pageVars
  /\ UNCHANGED serviceVars

\* applyConstraints rejects: applyVideoZoom falls through to the CSS scale
ApplyConstraintsReject ==
  /\ zoomState = "awaitConstraints"
  /\ videoRef' = CssZoom(videoRef)
  /\ zoomState' = "css"
  /\ lastCall' = "applyVideoZoom"
  /\ UNCHANGED <<effects, streams, zoomRequested, extraction>>
  /\ UNCHANGED pageVars
  /\ UNCHANGED serviceVars

ResetZoom ==
  /\ videoRef' = ResetVideoZoom(videoRef)
  /\ lastCall' = "resetVideoZoom"
  /\ UNCHANGED <<effects, streams, zoomState, zoomRequested, extraction>>
  /\ UNCHANGED pageVars
  /\ UNCHANGED serviceVars

ExtractFrame ==
  /\ \E format \in {"dataURL", "blob"}, ctxOk \in BOOLEAN, threw \in Throws,
        encodeOk \in BOOLEAN :
       extraction' = ExtractZoomedFrame(videoRef, streams[1].zoom, format, ctxOk, threw,
                                        encodeOk)
  /\ lastCall' = "extractZoomedFrame"
  /\ UNCHANGED <<videoRef, effects, streams, zoomState, zoomRequested>>
  /\ UNCHANGED pageVars
  /\ UNCHANGED serviceVars

\* initCamera runs with enabled = false on the mounted element
ReleaseDisabled ==
  /\ LET r == InitCamera(FALSE, videoRef, streams) IN
       /\ videoRef' = r.videoRef
       /\ streams' = r.streams
  /\ lastCall' = "disable"
  /\ UNCHANGED <<effects, zoomState, zoomRequested, extraction>>
  /\ UNCHANGED pageVars
  /\ UNCHANGED serviceVars

\* the cleanup of the effect that acquired stream 1 runs
ReleaseCleanup ==
  /\ ~effects[1].cleaned
  /\ LET r == Cleanup(effects[1].stream, videoRef, streams) IN
       /\ videoRef' = r.videoRef
       /\ streams' = r.streams
  /\ effects' = [effects EXCEPT ![1].cleaned = TRUE]
  /\ lastCall' = "cleanup"
  /\ UNCHANGED <<zoomState, zoomRequested, extraction>>
  /\ UNCHANGED pageVars
  /\ UNCHANGED serviceVars

NextZoom ==
  \/ ApplyVideoZoom
  \/ ApplyConstraintsResolve
  \/ ApplyConstraintsReject
  \/ ResetZoom
  \/ ExtractFrame
  \/ ReleaseDisabled
  \/ ReleaseCleanup

SpecZoom == InitZoom /\ [][NextZoom]_vars

(***************************************************************************)
(* SpecRelease: the release paths of the hook and resetVideoZoom applied   *)
(* to a display surface that is bound to the acquired stream, that never   *)
(* had a stream, or that is absent.                                        *)
(***************************************************************************)
InitRelease ==
  /\ mounted = TRUE
  /\ showInfoOverlay = FALSE
  /\ capturedImageDataUrl = NullImage
  /\ currentTestType = "WHITE"
  /\ toastMessage = ""
  /\ placedCrosshairs = <<>>
  /\ analysisResult = NullResult
  /\ isLoadingAnalysis = FALSE
  /\ showResultsModal = FALSE
  /\ isPostAnalysis = FALSE
  /\ \/ \E s \in StreamKinds, zoomed \in BOOLEAN :
          LET el == [NewVideo EXCEPT !.srcObject = 1, !.readyState = 4,
                                     !.videoWidth = s.width, !.videoHeight = s.height]
          IN /\ streams = <<s>>
             /\ videoRef = IF zoomed THEN CssZoom(el) ELSE el
             /\ effects = <<[enabled |-> TRUE, stream |-> 1, pc |-> "done",
                             cleaned |-> FALSE]>>
     \/ /\ streams = <<>>
        /\ videoRef \in {NewVideo, NullVideo}
        /\ effects = <<[enabled |-> TRUE, stream |-> 0, pc |-> "done", cleaned |-> FALSE]>>
  /\ zoomState = "idle"
  /\ zoomRequested = R(0)
  /\ extraction = NoExtraction
  /\ lastCall = "none"
  /\ request = NoRequest

NextRelease ==
  \/ ReleaseDisabled
  \/ ReleaseCleanup
  \/ ResetZoom

SpecRelease == InitRelease /\ [][NextRelease]_vars

(***************************************************************************)
(* SpecService: handleSendData and sendAnalysisData on a page that shows   *)
(* a captured still with points placed, against every response.           *)
(***************************************************************************)
\* the stills handleCaptureImage stores from a camera of the given resolution
Stills(res) ==
  {ExtractZoomedFrame([NewVideo EXCEPT !.srcObject = 1, !.readyState = 4,
                                       !.videoWidth = res[1], !.videoHeight = res[2]],
                      R(1), "dataURL", TRUE, "none", encodeOk).image :
     encodeOk \in BOOLEAN}

\* the coordinates handleImageAreaClick gives the events of the model
Placements ==
  {<<Clamped(RawRatio(R(event.clientX), ImageRect.left, ImageRect.width)),
     Clamped(RawRatio(R(event.clientY), ImageRect.top, ImageRect.height))>> :
     event \in ClickEvents}

\* the lists of two and of three points that can be analysed
AnalysableLists ==
  LET pairs == {AppendPoint(AppendPoint(<<>>, p[1], p[2], t1), q[1], q[2], t2) :
                  p \in Placements, q \in Placements, t1 \in TestTypes, t2 \in TestTypes}
      triples == {AppendPoint(pair, p[1], p[2], t) :
                    pair \in pairs, p \in Placements, t \in TestTypes}
  IN {points \in pairs \cup triples : CanAnalyze(points)}

InitService ==
  /\ mounted = TRUE
  /\ showInfoOverlay = FALSE
  /\ currentTestType \in TestTypes
  /\ toastMessage = ""
  /\ placedCrosshairs \in AnalysableLists
  /\ analysisResult = NullResult
  /\ isLoadingAnalysis = FALSE
  /\ showResultsModal = FALSE
  /\ isPostAnalysis = FALSE
  /\ videoRef = NullVideo
  /\ \E res \in CameraResolutions :
       /\ streams = <<[Stream(TRUE, "ok", NoZoomCapability, res) EXCEPT !.state = "ended"]>>
       /\ capturedImageDataUrl \in Stills(res)
  /\ effects = <<[enabled |-> FALSE, stream |-> 0, pc |-> "done", cleaned |-> TRUE],
                 [enabled |-> TRUE, stream |-> 1, pc |-> "done", cleaned |-> TRUE],
                 [enabled |-> FALSE, stream |-> 0, pc |-> "done", cleaned |-> FALSE]>>
  /\ zoomState = "idle"
  /\ zoomRequested = R(0)
  /\ extraction = NoExtraction
  /\ lastCall = "none"
  /\ request = NoRequest

NextService ==
  \/ HandleSendData
  \/ ImageFetchSettles
  \/ PostSettles(Responses)
  \/ SendDataReturn

SpecService == InitService /\ [][NextService]_vars

\* SpecService with the promises settling: the fetch of the data URL and
\* the POST settle (the server answers or the 30 s abort fires) and the
\* continuation of handleSendData runs
SpecServiceLive ==
  /\ SpecService
  /\ WF_vars(ImageFetchSettles)
  /\ WF_vars(PostSettles(Responses))
  /\ WF_vars(SendDataReturn)

(***************************************************************************)
(* SpecClicks: the point handlers on a page that has just captured its     *)
(* first still, with events that arrive one per task and in pairs.         *)
(***************************************************************************)
InitClicks ==
  /\ mounted = TRUE
  /\ showInfoOverlay = FALSE
  /\ currentTestType = "WHITE"
  /\ toastMessage = ""
  /\ placedCrosshairs = <<>>
  /\ analysisResult = NullResult
  /\ isLoadingAnalysis = FALSE
  /\ showResultsModal = FALSE
  /\ isPostAnalysis = FALSE
  /\ videoRef = NullVideo
  /\ \E res \in CameraResolutions :
       /\ streams = <<[Stream(TRUE, "ok", NoZoomCapability, res) EXCEPT !.state = "ended"]>>
       /\ capturedImageDataUrl \in Stills(res)
  /\ effects = <<[enabled |-> FALSE, stream |-> 0, pc |-> "done", cleaned |-> TRUE],
                 [enabled |-> TRUE, stream |-> 1, pc |-> "done", cleaned |-> TRUE],
                 [enabled |-> FALSE, stream |-> 0, pc |-> "done", cleaned |-> FALSE]>>
  /\ zoomState = "idle"
  /\ zoomRequested = R(0)
  /\ extraction = NoExtraction
  /\ lastCall = "none"
  /\ request = NoRequest

NextClicks ==
  \/ ImageAreaClick
  \/ ImageAreaClickTwice
  \/ HandleKeyDown
  \/ SetCurrentTestType
  \/ HandleClearLastPoint
  \/ HandleClearAllPoints
  \/ ToastClose

SpecClicks == InitClicks /\ [][NextClicks]_vars

(***************************************************************************)
(* Claims about the page and the hook (Spec)                               *)
(***************************************************************************)
AllCallbacksDone == \A i \in DOMAIN effects : effects[i].pc = "done"

AcquisitionDisabled ==
  ~mounted \/ ~Enabled(showInfoOverlay, capturedImageDataUrl, isLoadingAnalysis)

\* C4: once acquisition is disabled or the page is torn down and every
\* pending getUserMedia / play callback has run, no camera track is live.
C4_NoLiveTrackWhenDisabled ==
  (AcquisitionDisabled /\ AllCallbacksDone) => LiveStreams = {}

\* C5: at most one acquired stream has live tracks.
C5_AtMostOneLiveStream == Cardinality(LiveStreams) <= 1

\* C5 witness: a second stream was acquired and is live after the first one
\* was stopped.
C5_Witness ==
  /\ Len(streams) >= 2
  /\ streams[1].state = "ended"
  /\ streams[Len(streams)].state = "live"
  /\ videoRef.srcObject = Len(streams)

\* C6: a continuation of an effect instance that was already cleaned up
\* neither binds a stream to the display surface nor reports into the
\* page's state.
C6_StaleContinuationIsInert ==
  [][\A i \in DOMAIN effects :
       (effects[i].cleaned /\ effects'[i].pc # effects[i].pc)
         => (videoRef' = videoRef /\ toastMessage' = toastMessage)]_vars

\* C7: while a stream is bound to the video element, the element shows the
\* feed magnified by CAMERA_ZOOM_FACTOR.
C7_BoundFeedIsMagnified ==
  (videoRef.current /\ videoRef.srcObject # 0)
    => REq(PreviewMagnification(videoRef, streams[videoRef.srcObject]),
           CAMERA_ZOOM_FACTOR)

(***************************************************************************)
(* Claims about the zoom utilities and the release paths (SpecZoom)        *)
(***************************************************************************)
ExtractionSucceeded == extraction.outcome \in {"dataURL", "blob"}

SourceHasSize == videoRef.videoWidth > 0 /\ videoRef.videoHeight > 0

\* C1: for a W x H source with W, H > 0 the still is W x H and is sampled
\* from the rectangle of size W/F x H/F whose centre is (W/2, H/2), at
\* offset ((W - W/F)/2, (H - H/F)/2); 1200 x 900 gives 480 x 360 at (360, 270).
C1_CropGeometry ==
  (ExtractionSucceeded /\ SourceHasSize) =>
    LET W == videoRef.videoWidth
        H == videoRef.videoHeight
        img == extraction.image
    IN /\ img.width = W /\ img.height = H
       /\ REq(RMul(img.sw, CAMERA_ZOOM_FACTOR), R(W))
       /\ REq(RMul(img.sh, CAMERA_ZOOM_FACTOR), R(H))
       /\ REq(RAdd(img.sx, img.sx), RSub(R(W), img.sw))
       /\ REq(RAdd(img.sy, img.sy), RSub(R(H), img.sh))
       /\ REq(RAdd(img.sx, RDiv(img.sw, R(2))), RDiv(R(W), R(2)))
       /\ REq(RAdd(img.sy, RDiv(img.sh, R(2))), RDiv(R(H), R(2)))
       /\ (W = 1200 /\ H = 900) =>
            /\ REq(img.sw, R(480)) /\ REq(img.sh, R(360))
            /\ REq(img.sx, R(360)) /\ REq(img.sy, R(270))

\* C1 witness: a still was extracted from a 1200 x 900 source.
C1_Witness ==
  /\ ExtractionSucceeded
  /\ videoRef.videoWidth = 1200 /\ videoRef.videoHeight = 900
  /\ extraction.image.width = 1200 /\ REq(extraction.image.sx, R(360))

\* applyVideoZoom has returned having zoomed the preview, and the element
\* still carries what it applied
ZoomApplied ==
  \/ zoomState = "hardware" /\ videoRef.transform = NoTransform
  \/ zoomState = "css" /\ videoRef.transform = ScaleTransform(CAMERA_ZOOM_FACTOR)

\* C2: a still extracted after applyVideoZoom shows the same magnification of
\* the unzoomed sensor as the live preview, on the hardware path and on the
\* CSS path.
C2_StillMatchesPreview ==
  (lastCall = "extractZoomedFrame" /\ ExtractionSucceeded /\ SourceHasSize /\ ZoomApplied)
    => REq(StillMagnification(extraction.image),
           PreviewMagnification(videoRef, streams[1]))

\* C3: the value applyVideoZoom applies to the preview, as the hardware zoom
\* it requests or as the CSS scale, is CAMERA_ZOOM_FACTOR.
C3_PreviewUsesTheFactor ==
  /\ zoomState \in {"awaitConstraints", "hardware"}
       => REq(zoomRequested, CAMERA_ZOOM_FACTOR)
  /\ videoRef.transform.fn = "scale"
       => REq(videoRef.transform.arg, CAMERA_ZOOM_FACTOR)

\* C8: whenever applyVideoZoom ends without hardware zoom (no track, the
\* capability query unsupported or failing, no zoom capability, constraint
\* rejected) it has not thrown, nothing is reported, and the element carries
\* scale(CAMERA_ZOOM_FACTOR) with a centred origin.
C8_FallbackAlwaysScales ==
  (lastCall = "applyVideoZoom" /\ zoomState \in {"noTrack", "threw", "css"})
    => /\ zoomState # "threw"
       /\ toastMessage = ""
       /\ videoRef.transform = ScaleTransform(CAMERA_ZOOM_FACTOR)
       /\ videoRef.transformOrigin = "center"

\* the track reports a zoom capability with a supported range
HardwareZoomOffered ==
  /\ streams[1].hasVideoTrack
  /\ streams[1].getCapabilities = "ok"
  /\ streams[1].zoomCapability.present
  /\ streams[1].zoomCapability.min > 0
  /\ streams[1].zoomCapability.max > 0

\* min(2.5, capabilities.zoom.max)
ExpectedHardwareZoom ==
  IF 2 * streams[1].zoomCapability.max < 5
  THEN R(streams[1].zoomCapability.max)
  ELSE CAMERA_ZOOM_FACTOR

\* C9: when the track offers zoom, applyVideoZoom requests exactly
\* min(CAMERA_ZOOM_FACTOR, max) before anything else and applies no CSS
\* transform on success; the CSS transform appears only when hardware zoom
\* was not offered or its request was rejected.
C9_HardwareZoomFirst ==
  /\ (zoomState # "idle" /\ HardwareZoomOffered)
       => /\ zoomState \in {"awaitConstraints", "hardware", "css"}
          /\ REq(zoomRequested, ExpectedHardwareZoom)
  /\ zoomState \in {"awaitConstraints", "hardware"}
       => /\ HardwareZoomOffered
          /\ videoRef.transform = NoTransform
  /\ zoomState = "hardware" => REq(streams[1].zoom, ExpectedHardwareZoom)
  /\ videoRef.transform.fn = "scale" => zoomState = "css"

\* C9 witness: hardware zoom was applied with the value clamped to the
\* track's maximum of 2, and the element has no transform.
C9_Witness ==
  /\ zoomState = "hardware"
  /\ streams[1].zoomCapability.max = 2
  /\ REq(streams[1].zoom, R(2))
  /\ videoRef.transform = NoTransform

\* C10: after the disable branch or the cleanup has run, every track of the
\* stream that was bound is stopped and the element is unbound; after
\* resetVideoZoom the element has no transform and no transform origin.
C10_ReleaseStopsUnbindsClears ==
  /\ (lastCall \in {"disable", "cleanup"} \/ effects[1].cleaned)
       => /\ streams[1].state = "ended"
          /\ videoRef.srcObject = 0
  /\ lastCall = "resetVideoZoom"
       => /\ videoRef.transform = NoTransform
          /\ videoRef.transformOrigin = ""

\* C10 witness: the CSS zoom was applied, then the camera was released and
\* the zoom reset.
C10_Witness ==
  /\ zoomState = "css"
  /\ lastCall = "resetVideoZoom"
  /\ streams[1].state = "ended"
  /\ videoRef.srcObject = 0
  /\ videoRef.transform = NoTransform

(***************************************************************************)
(* Claims about release (SpecRelease)                                      *)
(***************************************************************************)
\* release as the specification composes it: the tracks of the bound stream
\* are stopped, the element is unbound and its transform cleared
Released(el, strs) ==
  LET r == InitCamera(FALSE, el, strs)
  IN [videoRef |-> ResetVideoZoom(r.videoRef), streams |-> r.streams]

NoActiveTrack(strs) == \A s \in DOMAIN strs : strs[s].state = "ended"

\* C11: a second release (by the disable branch with resetVideoZoom, or by
\* the cleanup) gives the state of the first; a release when no stream was
\* acquired, with or without a video element, returns normally and changes
\* nothing; after a release no track is active.
C11_ReleaseIsIdempotent ==
  /\ [](LET once == Released(videoRef, streams)
            twice == Released(once.videoRef, once.streams)
            cleaned == Cleanup(effects[1].stream, videoRef, streams)
            again == Cleanup(effects[1].stream, cleaned.videoRef, cleaned.streams)
        IN /\ twice = once
           /\ again = cleaned
           /\ NoActiveTrack(once.streams)
           /\ NoActiveTrack(cleaned.streams)
           /\ streams = <<>> => (once.streams = <<>> /\ cleaned.streams = <<>>
                                  /\ InitCamera(FALSE, videoRef, streams).videoRef = videoRef)
           /\ lastCall \in {"disable", "cleanup"} => NoActiveTrack(streams))
  /\ [][(lastCall \in {"disable", "cleanup"} /\ lastCall' \in {"disable", "cleanup"})
          => (videoRef' = videoRef /\ streams' = streams)]_vars

\* C11 witness: with no stream acquired and no video element, the cleanup
\* ran and then the disable branch ran.
C11_Witness ==
  /\ streams = <<>>
  /\ ~videoRef.current
  /\ effects[1].cleaned
  /\ lastCall = "disable"

(***************************************************************************)
(* Claims about extractZoomedFrame (SpecZoom)                              *)
(***************************************************************************)
\* C12: on every exit of extractZoomedFrame (data URL, blob, no context,
\* no encoder output, an error thrown while drawing or encoding) the canvas
\* the call created has been removed.
C12_CanvasReleasedOnEveryExit ==
  extraction.canvasCreated => extraction.canvasRemoved

\* C14: extractZoomedFrame ends in the context error or an encoding error
\* when it fails, and never succeeds with an absent or empty image, for
\* 'dataURL' and for 'blob'.
C14_NoSuccessWithoutImage ==
  /\ ExtractionSucceeded => extraction.image.data = "jpeg"
  /\ (extraction.outcome = "error" /\ extraction.canvasRemoved)
       => extraction.error \in {"Failed to get canvas context",
                                "Failed to create blob from canvas", "encode"}

(***************************************************************************)
(* Claims about capture and acquisition errors (Spec)                      *)
(***************************************************************************)
\* the source is absent, not ready, or has no width or no height
SourceNotReady(video) ==
  ~video.current \/ video.readyState = 0 \/ video.videoWidth = 0 \/ video.videoHeight = 0

\* C13: while the source is absent, not ready or without width or height, a
\* capture ends in the readiness message without calling extractZoomedFrame
\* and without storing a still, and no step changes the captured still, the
\* placed points or the analysis results or reports a failed extraction.
C13_NotReadyCaptureIsRefused ==
  /\ [](SourceNotReady(videoRef) =>
          \A ctxOk \in BOOLEAN, threw \in Throws, encodeOk \in BOOLEAN :
            LET c == CaptureImage(videoRef, streams, ctxOk, threw, encodeOk)
            IN /\ c.toast = "Video stream not ready. Please ensure camera access is granted."
               /\ c.extraction = NoExtraction
               /\ ~c.captured)
  /\ [][(mounted /\ ~showInfoOverlay /\ capturedImageDataUrl = NullImage
           /\ SourceNotReady(videoRef))
          => /\ capturedImageDataUrl' = capturedImageDataUrl
             /\ placedCrosshairs' = placedCrosshairs
             /\ analysisResult' = analysisResult
             /\ toastMessage' # "Failed to capture image. Please try again."]_vars

\* C13 witness: a capture was requested while the bound stream had not
\* delivered its dimensions; the readiness message is shown and no still.
C13_Witness ==
  /\ mounted
  /\ videoRef.current /\ videoRef.srcObject # 0 /\ videoRef.readyState = 0
  /\ toastMessage = "Video stream not ready. Please ensure camera access is granted."
  /\ capturedImageDataUrl = NullImage

AcquisitionMessages ==
  {"Camera access was denied. Please grant permission in your browser settings.",
   "No camera found. Please ensure a camera is connected and enabled.",
   "Camera access denied or unavailable. Please check permissions."}

\* getUserMedia of effect instance i rejects in this step
Rejected(i) ==
  /\ effects[i].pc = "getUserMedia"
  /\ effects'[i].pc = "done"
  /\ effects'[i].stream = 0

\* C15: NotAllowedError, NotFoundError and every other failure have three
\* different messages; a rejected getUserMedia sets one of them as the
\* page's message, and nothing else sets any of them.
C15_AcquisitionFailureCategories ==
  /\ [](/\ StreamErrorMessage("NotAllowedError")
             = "Camera access was denied. Please grant permission in your browser settings."
        /\ StreamErrorMessage("NotFoundError")
             = "No camera found. Please ensure a camera is connected and enabled."
        /\ \A name \in ErrorNames \ {"NotAllowedError", "NotFoundError"} :
             StreamErrorMessage(name)
               = "Camera access denied or unavailable. Please check permissions.")
  /\ [][\A i \in DOMAIN effects :
          (Rejected(i) /\ mounted) => toastMessage' \in AcquisitionMessages]_vars
  /\ [][(toastMessage' \in AcquisitionMessages /\ toastMessage' # toastMessage)
          => \E i \in DOMAIN effects : Rejected(i)]_vars

\* C15 witness: the page shows the device-not-found message of an
\* acquisition that failed.
C15_Witness ==
  /\ mounted
  /\ toastMessage = "No camera found. Please ensure a camera is connected and enabled."
  /\ \E i \in DOMAIN effects :
       effects[i].enabled /\ effects[i].pc = "done" /\ effects[i].stream = 0

(***************************************************************************)
(* Claims about placed points (Spec)                                       *)
(***************************************************************************)
InUnitInterval(r) == ~RLess(r, R(0)) /\ ~RLess(R(1), r)

\* C16: every placed point has 0 <= x <= 1 and 0 <= y <= 1.
C16_PointsAreClamped ==
  \A k \in DOMAIN placedCrosshairs :
    InUnitInterval(placedCrosshairs[k].x) /\ InUnitInterval(placedCrosshairs[k].y)

\* C16 witness: the click left of the area (raw ratio -1/4) placed a point
\* at x = 0, and the Enter key placed one at the centre.
C16_Witness ==
  /\ \E k \in DOMAIN placedCrosshairs : placedCrosshairs[k].x = R(0)
  /\ \E k \in DOMAIN placedCrosshairs :
       placedCrosshairs[k].x = <<1, 2>> /\ placedCrosshairs[k].y = <<1, 2>>

\* C17: the k-th placed point has pointIndex k.
C17_IndicesFollowPlacement ==
  \A k \in DOMAIN placedCrosshairs : placedCrosshairs[k].pointIndex = k

\* C17 witness: two points were submitted, a third was placed while the
\* results were held, and Edit Points returned to editing: the indices are
\* 1, 2, 3.
C17_Witness ==
  /\ ~isPostAnalysis
  /\ capturedImageDataUrl # NullImage
  /\ Len(placedCrosshairs) = 3
  /\ placedCrosshairs[3].pointIndex = 3

HasCalibrationReference(points) ==
  /\ Cardinality({k \in DOMAIN points : points[k].testType = "WHITE"}) = 1
  /\ \E k \in DOMAIN points : points[k].testType # "WHITE"

\* C19: handleSendData goes on to sendAnalysisData exactly when a still is
\* captured and the list has one WHITE point and at least one other point,
\* and otherwise sets a message; a call starts, and a POST is issued, only
\* from such a state and for the still and the list of the page.
C19_UploadNeedsReference ==
  /\ [](LET d == SendDataStart(capturedImageDataUrl, placedCrosshairs)
        IN /\ d.send <=> (capturedImageDataUrl # NullImage
                            /\ HasCalibrationReference(placedCrosshairs))
           /\ ~d.send => d.toast # "")
  /\ [][(request.pc = "idle" /\ request'.pc # "idle")
          => /\ capturedImageDataUrl # NullImage
             /\ HasCalibrationReference(placedCrosshairs)
             /\ request'.crosshairs = placedCrosshairs
             /\ request'.imageDataUrl = capturedImageDataUrl]_vars
  /\ [][request'.posts > request.posts
          => /\ request.imageDataUrl # NullImage
             /\ HasCalibrationReference(request.crosshairs)]_vars

\* C19 witness: a list with the WHITE point placed second has been posted.
C19_Witness ==
  /\ request.pc = "post"
  /\ request.posts = 1
  /\ Len(request.crosshairs) = 2
  /\ request.crosshairs[2].testType = "WHITE"

(***************************************************************************)
(* Claims about sendAnalysisData (SpecService)                             *)
(***************************************************************************)
\* pointIndex number, test_type string, concentration number, remarks in
\* the enumerated set
WellTyped(element) ==
  /\ ~element.isNull
  /\ element.pointIndexType = "number"
  /\ element.testTypeType = "string"
  /\ element.concentrationType = "number"
  /\ element.remarksType = "string"
  /\ element.remarks \in {"none", "low", "normal", "high"}

\* C20: sendAnalysisData returns success only for an ok response whose body
\* has a results array with a well-typed element, and then returns only
\* well-typed elements; a body without results, with results that are no
\* array, with an empty array or with no well-typed element gives a failure
\* with a message, whatever the status.
C20_SuccessNeedsValidResults ==
  request.pc = "return" =>
    LET response == request.response
        result == request.result
    IN /\ result.success =>
            /\ request.posts = 1
            /\ response.kind = "http" /\ response.ok /\ response.body = "array"
            /\ \E k \in DOMAIN response.results : WellTyped(response.results[k])
            /\ result.results # <<>>
            /\ \A k \in DOMAIN result.results : WellTyped(result.results[k])
       /\ (/\ response.kind = "http"
           /\ \/ response.body # "array"
              \/ \A k \in DOMAIN response.results : ~WellTyped(response.results[k]))
            => (~result.success /\ result.error # "")

\* C20 witness: an ok response with two elements, one of them not well
\* typed, was accepted with the one that is.
C20_Witness ==
  /\ request.pc = "return"
  /\ request.result.success
  /\ Len(request.response.results) = 2
  /\ Len(request.result.results) = 1

\* C21 as stated: a response with fewer results than submitted points is
\* accepted only if every element of its results passes the validation.
C21_PartialOnlyIfEveryElementValid ==
  (/\ request.pc = "return"
   /\ request.result.success
   /\ Len(request.response.results) < Len(request.crosshairs))
    => \A k \in DOMAIN request.response.results : WellTyped(request.response.results[k])

\* C21 amended: an ok response with fewer results than submitted points is
\* accepted exactly when no element is null and at least one element passes
\* the validation; the result set is then the passing elements in order
\* (the others are dropped); with no passing element it is a failure with
\* a message.
C21_PartialKeepsValidElements ==
  (/\ request.pc = "return"
   /\ request.response.kind = "http" /\ request.response.ok
   /\ request.response.body = "array"
   /\ Len(request.response.results) < Len(request.crosshairs))
    => LET results == request.response.results
           result == request.result
       IN IF \E k \in DOMAIN results : results[k].isNull
          THEN ~result.success /\ result.error # ""
          ELSE IF \E k \in DOMAIN results : WellTyped(results[k])
          THEN result.success /\ result.results = SelectSeq(results, WellTyped)
          ELSE ~result.success /\ result.error # ""

\* C21 witness: three points were submitted, two results came back, one of
\* them with remarks outside the set, and the other was accepted alone.
C21_Witness ==
  /\ request.pc = "return"
  /\ request.result.success
  /\ Len(request.crosshairs) = 3
  /\ Len(request.response.results) = 2
  /\ Len(request.result.results) = 1

UploadFailed ==
  /\ request.pc = "return"
  /\ \/ request.posts = 0
     \/ request.response.kind \in {"timeout", "transport"}
     \/ ~request.response.ok
     \/ request.response.body # "array"
     \/ \A k \in DOMAIN request.response.results :
          ~WellTyped(request.response.results[k])

\* C23: every failed upload has returned success = false with a non-empty
\* message, and the continuation of handleSendData then clears the loading
\* flag and sets that message as the page's message.
C23_NoFailureDropped ==
  /\ [](UploadFailed => (~request.result.success /\ request.result.error # ""))
  /\ [][(request.pc = "return" /\ request'.pc = "idle")
          => /\ ~isLoadingAnalysis'
             /\ ~request.result.success => toastMessage' = request.result.error]_vars

\* C23 witness: the page shows the message of a response that had no valid
\* element, and is not loading.
C23_Witness ==
  /\ request.pc = "idle"
  /\ ~isLoadingAnalysis
  /\ toastMessage = "No valid concentration results received from server"

\* C24: a call issues at most one POST, and a call that has returned is
\* followed by nothing but the continuation of handleSendData: a new call
\* starts only from a page that is not loading.
C24_NoAutomaticRetry ==
  /\ [](request.posts <= 1)
  /\ [][request.pc = "return" => request' = NoRequest]_vars
  /\ [][(request'.pc # "idle" /\ request.pc = "idle") => ~isLoadingAnalysis]_vars

\* C24 witness: a call whose one POST timed out has returned.
C24_Witness ==
  /\ request.pc = "return"
  /\ request.posts = 1
  /\ request.response.kind = "timeout"

(***************************************************************************)
(* Claims about the point handlers (SpecClicks, Spec)                      *)
(***************************************************************************)
\* C25: the placed-point list never holds more than one WHITE point, also
\* when two placements are handled before the first one's update is
\* rendered.
C25_AtMostOneWhite ==
  Cardinality({k \in DOMAIN placedCrosshairs : placedCrosshairs[k].testType = "WHITE"}) <= 1

\* the still, the selected test type and the analysis state stay as they are
ClearFrame ==
  /\ capturedImageDataUrl' = capturedImageDataUrl
  /\ currentTestType' = currentTestType
  /\ analysisResult' = analysisResult
  /\ isLoadingAnalysis' = isLoadingAnalysis
  /\ showResultsModal' = showResultsModal
  /\ isPostAnalysis' = isPostAnalysis

\* C26: clear-last removes the last point and keeps the others as they are,
\* and gives the empty list on the empty list; clear-all empties the list;
\* neither changes the still, the selected test type or the analysis state.
C26_ClearLastAndClearAll ==
  /\ [](LET r == ClearLastPoint(placedCrosshairs)
        IN /\ ClearLastPoint(<<>>) = <<>>
           /\ placedCrosshairs # <<>> =>
                /\ Len(r) = Len(placedCrosshairs) - 1
                /\ \A k \in DOMAIN r : r[k] = placedCrosshairs[k])
  /\ [][HandleClearLastPoint
          => /\ Len(placedCrosshairs') = Len(placedCrosshairs) - 1
             /\ \A k \in DOMAIN placedCrosshairs' :
                  placedCrosshairs'[k] = placedCrosshairs[k]
             /\ ClearFrame]_vars
  /\ [][HandleClearAllPoints => (placedCrosshairs' = <<>> /\ ClearFrame)]_vars

\* C26 witness: a second WHITE point was refused on a list that held one,
\* and clear-last then removed the WHITE point: the refusal is still shown
\* over a list of one point that is not WHITE.
C26_Witness ==
  /\ capturedImageDataUrl # NullImage
  /\ toastMessage = "Only ONE white reference point allowed."
  /\ Len(placedCrosshairs) = 1
  /\ placedCrosshairs[1].testType # "WHITE"

\* C27: while results are held (from the successful response until Edit
\* Points or Retake) no step changes the placed-point list.
C27_HeldResultsKeepTheirPoints ==
  [][(/\ isPostAnalysis /\ analysisResult # NullResult
      /\ isPostAnalysis' /\ analysisResult' = analysisResult)
       => placedCrosshairs' = placedCrosshairs]_vars

\* C28: while the page is loading there is one sendAnalysisData call, made
\* for the still and the list the page still holds; no step of a loading
\* page changes the still or the list or starts another call; and a call is
\* in progress only while the page is loading.
C28_OneRequestInFlight ==
  /\ []((mounted /\ isLoadingAnalysis)
          => /\ request.pc # "idle"
             /\ request.imageDataUrl = capturedImageDataUrl
             /\ request.crosshairs = placedCrosshairs)
  /\ []((mounted /\ request.pc # "idle") => isLoadingAnalysis)
  /\ [][(mounted /\ isLoadingAnalysis /\ isLoadingAnalysis')
          => /\ capturedImageDataUrl' = capturedImageDataUrl
             /\ placedCrosshairs' = placedCrosshairs
             /\ request'.imageDataUrl = request.imageDataUrl
             /\ request'.crosshairs = request.crosshairs]_vars
  /\ [][request.pc # "idle" => (request'.pc # "fetchImage" \/ request' = request)]_vars

\* C28 witness: the page is loading while the POST of its request is
\* pending, after results had been shown for an earlier request.
C28_Witness ==
  /\ mounted /\ isLoadingAnalysis
  /\ isPostAnalysis
  /\ request.pc = "post"

\* C29: a page that is loading is eventually not loading.
C29_LoadingEnds == isLoadingAnalysis ~> ~isLoadingAnalysis

\* C30: Retake leaves the page as it was on first entering capture mode: no
\* still, no points, no results, no message, not loading, not
\* post-analysis, the camera enabled, and WHITE selected.
C30_RetakeRestoresEntryState ==
  [][ResetToCaptureState
       => /\ capturedImageDataUrl' = NullImage
          /\ placedCrosshairs' = <<>>
          /\ analysisResult' = NullResult
          /\ ~showResultsModal'
          /\ toastMessage' = ""
          /\ ~isLoadingAnalysis'
          /\ ~isPostAnalysis'
          /\ Enabled(showInfoOverlay', capturedImageDataUrl', isLoadingAnalysis')
          /\ currentTestType' = "WHITE"]_vars

====
